---- MODULE Spec2Model ----
(***************************************************************************)
(* Production-reporting portal (src/app.js): session authentication, the   *)
(* report ledger and the admin user-management API, as a state machine.    *)
(*                                                                         *)
(* Text is a sequence of one-character strings, so that trim, LIKE and the *)
(* string/number conversions of the handlers are computed, not assumed.    *)
(* A request value is a JSON value: undefined (absent), null, a boolean, a *)
(* number or a string.  Numbers are held in tenths (15 is 1.5) with the    *)
(* two non-finite kinds of a JavaScript number kept apart.                 *)
(***************************************************************************)
EXTENDS Integers, Sequences, FiniteSets, TLC

VARIABLES users, sessions, reports, today, pending, writes, last

vars == <<users, sessions, reports, today, pending, writes, last>>

(***************************************************************************)
(* Bounds of the model.                                                    *)
(***************************************************************************)
MaxReports == 2
MaxDay == 2
MaxWrites == 2

(***************************************************************************)
(* JSON values and JavaScript numbers.                                     *)
(***************************************************************************)
Fin(tenths) == [k |-> "fin", v |-> tenths]
NaN == [k |-> "nan", v |-> 0]
Infinity == [k |-> "inf", v |-> 1]

Undef == [t |-> "undefined", b |-> FALSE, n |-> NaN, s |-> <<>>]
Null == [t |-> "null", b |-> FALSE, n |-> NaN, s |-> <<>>]
Bool(x) == [t |-> "boolean", b |-> x, n |-> NaN, s |-> <<>>]
Num(x) == [t |-> "number", b |-> FALSE, n |-> x, s |-> <<>>]
Whole(i) == Num(Fin(10 * i))
Str(x) == [t |-> "string", b |-> FALSE, n |-> NaN, s |-> x]

\* JavaScript truthiness, as used by `!x`, `x || y` and `if (x)`.
Truthy(x) ==
  CASE x.t = "undefined" -> FALSE
    [] x.t = "null" -> FALSE
    [] x.t = "boolean" -> x.b
    [] x.t = "number" -> x.n.k = "inf" \/ (x.n.k = "fin" /\ x.n.v # 0)
    [] x.t = "string" -> x.s # <<>>

\* a || b
Or(a, b) == IF Truthy(a) THEN a ELSE b

\* a ?? b
Nullish(x) == x.t \in {"undefined", "null"}
Coalesce(a, b) == IF Nullish(a) THEN b ELSE a

IsFinite(x) == x.k = "fin"
Negative(x) == (x.k = "fin" /\ x.v < 0) \/ (x.k = "inf" /\ x.v < 0)

(***************************************************************************)
(* Text.                                                                   *)
(***************************************************************************)
Digits == <<"0", "1", "2", "3", "4", "5", "6", "7", "8", "9">>
IsDigit(c) == \E i \in 1..10 : Digits[i] = c
DigitVal(c) == (CHOOSE i \in 1..10 : Digits[i] = c) - 1
IsSpace(c) == c = " "

RECURSIVE TrimLeft(_)
TrimLeft(s) == IF s # <<>> /\ IsSpace(Head(s)) THEN TrimLeft(Tail(s)) ELSE s

RECURSIVE TrimRight(_)
TrimRight(s) ==
  IF s # <<>> /\ IsSpace(s[Len(s)]) THEN TrimRight(SubSeq(s, 1, Len(s) - 1)) ELSE s

\* String.prototype.trim
Trim(s) == TrimRight(TrimLeft(s))

AllDigits(s) == \A i \in 1..Len(s) : IsDigit(s[i])

RECURSIVE DigitsVal(_)
DigitsVal(s) ==
  IF s = <<>> THEN 0 ELSE 10 * DigitsVal(SubSeq(s, 1, Len(s) - 1)) + DigitVal(s[Len(s)])

\* The unsigned decimal literals with at most one fraction digit, in tenths.
DotAt(s) == IF \E i \in 1..Len(s) : s[i] = "." THEN CHOOSE i \in 1..Len(s) : s[i] = "." ELSE 0

UnsignedLiteral(s) ==
  LET d == DotAt(s)
      ip == IF d = 0 THEN s ELSE SubSeq(s, 1, d - 1)
      fp == IF d = 0 THEN <<>> ELSE SubSeq(s, d + 1, Len(s))
  IN IF AllDigits(ip) /\ AllDigits(fp) /\ Len(ip) + Len(fp) > 0 /\ Len(fp) <= 1
       THEN Fin(10 * DigitsVal(ip) + DigitsVal(fp))
       ELSE NaN

Negate(x) == [k |-> x.k, v |-> 0 - x.v]

InfinityText == <<"I", "n", "f", "i", "n", "i", "t", "y">>

\* Number(<string>): StringToNumber of the trimmed text.
StringToNumber(s) ==
  LET t == Trim(s)
      signed == t # <<>> /\ Head(t) \in {"-", "+"}
      body == IF signed THEN Tail(t) ELSE t
      mag == IF body = InfinityText THEN Infinity ELSE UnsignedLiteral(body)
  IN IF t = <<>> THEN Fin(0)
     ELSE IF signed /\ Head(t) = "-" THEN Negate(mag)
     ELSE mag

\* Number(x)
ToNumber(x) ==
  CASE x.t = "undefined" -> NaN
    [] x.t = "null" -> Fin(0)
    [] x.t = "boolean" -> IF x.b THEN Fin(10) ELSE Fin(0)
    [] x.t = "number" -> x.n
    [] x.t = "string" -> StringToNumber(x.s)

RECURSIVE NatText(_)
NatText(i) == IF i < 10 THEN <<Digits[i + 1]>> ELSE NatText(i \div 10) \o <<Digits[(i % 10) + 1]>>

\* Number.prototype.toString of a number held in tenths.
NumberText(x) ==
  CASE x.k = "nan" -> <<"N", "a", "N">>
    [] x.k = "inf" -> IF x.v < 0 THEN <<"-">> \o InfinityText ELSE InfinityText
    [] x.k = "fin" ->
         LET a == IF x.v < 0 THEN 0 - x.v ELSE x.v
             whole == NatText(a \div 10)
             frac == IF a % 10 = 0 THEN <<>> ELSE <<".", Digits[(a % 10) + 1]>>
         IN (IF x.v < 0 THEN <<"-">> ELSE <<>>) \o whole \o frac

\* String(x)
ToText(x) ==
  CASE x.t = "undefined" -> <<"u", "n", "d", "e", "f", "i", "n", "e", "d">>
    [] x.t = "null" -> <<"n", "u", "l", "l">>
    [] x.t = "boolean" -> IF x.b THEN <<"t", "r", "u", "e">> ELSE <<"f", "a", "l", "s", "e">>
    [] x.t = "number" -> NumberText(x.n)
    [] x.t = "string" -> x.s

\* x.trim() is a TypeError unless x is a string.
CanTrim(x) == x.t = "string"

(***************************************************************************)
(* Text used by the stores and the requests.                               *)
(***************************************************************************)
tRoot == <<"r", "o", "o", "t">>
tBob == <<"b", "o", "b">>
tEve == <<"e", "v", "e">>
tAmy == <<"a", "m", "y">>
tP == <<"p">>
tQ == <<"q">>
tS1 == <<"S", "1">>
tS2 == <<"S", "2">>
tS3 == <<"S", "3">>
tAdmin == <<"a", "d", "m", "i", "n">>
tEditor == <<"e", "d", "i", "t", "o", "r">>
tViewer == <<"v", "i", "e", "w", "e", "r">>
tSuper == <<"s", "u", "p", "e", "r">>
tO1 == <<"o", "1">>
tX == <<"x">>
tN1 == <<"n", "1">>

Clients == {"c1", "c2"}

(***************************************************************************)
(* bcrypt, an external primitive: a hash verifies exactly the password it  *)
(* was made from, and both calls reject a password that is not a string.   *)
(***************************************************************************)
BcryptAccepts(password) == password.t = "string"
BcryptHash(text) == [pw |-> text]
BcryptCompare(text, hash) == hash.pw = text

(***************************************************************************)
(* The relational store.                                                   *)
(***************************************************************************)
UserRow(id, username, hash, station, operator, role, active) ==
  [id |-> id, username |-> username, password_hash |-> hash, station |-> station,
   operator |-> operator, role |-> role, is_active |-> active]

InitUsers ==
  << UserRow(1, tRoot, BcryptHash(tP), tS1, tAmy, tAdmin, 1),
     UserRow(2, tBob, BcryptHash(tQ), tS2, tBob, tViewer, 1) >>

RECURSIVE Reverse(_)
Reverse(s) == IF s = <<>> THEN <<>> ELSE Reverse(Tail(s)) \o <<Head(s)>>

\* ORDER BY id DESC (ids ascend along the table) LIMIT n
OrderByIdDescLimit(rows, n) ==
  LET d == Reverse(rows) IN IF Len(d) > n THEN SubSeq(d, 1, n) ELSE d

Limit1(rows) == IF rows = <<>> THEN <<>> ELSE <<Head(rows)>>

\* SELECT ... FROM users WHERE username=? LIMIT 1 (the parameter is text)
SelectUserByName(table, name) ==
  LET Match(u) == u.username = name IN Limit1(SelectSeq(table, Match))

(***************************************************************************)
(* Sessions: per client cookie, <<>> without a user, else <<user record>>. *)
(***************************************************************************)
NoUser == <<>>
HasUser(c) == sessions[c] # NoUser
SessionUser(c) == sessions[c][1]

\* Variant: the whole row, password hash included, goes into the session.
SnapshotWholeRow(u) == u

Snapshot(u) ==
  [id |-> u.id, username |-> u.username, station |-> u.station,
   operator |-> u.operator, role |-> u.role]

(***************************************************************************)
(* Responses.  last is the request most recently answered (or accepted)    *)
(* and its answer; status 0 is a request still being served.               *)
(***************************************************************************)
Response(op, c, req, status, msg, rows) ==
  [op |-> op, client |-> c, req |-> req, status |-> status, msg |-> msg, rows |-> rows]

NoResponse == Response("none", "none", Undef, 0, "", <<>>)

Init ==
  /\ users = InitUsers
  /\ sessions = [c \in Clients |-> NoUser]
  /\ reports = <<>>
  /\ today = 1
  /\ pending = [c \in Clients |-> <<>>]
  /\ writes = 0
  /\ last = NoResponse

(***************************************************************************)
(* Auth guards.  A guard answers [pass, status, msg].                      *)
(***************************************************************************)
Pass == [pass |-> TRUE, status |-> 0, msg |-> ""]
Stop(status, msg) == [pass |-> FALSE, status |-> status, msg |-> msg]

requireLogin(c) ==
  IF ~HasUser(c) THEN Stop(302, "/login.html") ELSE Pass

\* Variant: the admin guard asks for a login only.
requireAdminAnyRole(c) ==
  IF ~HasUser(c) THEN Stop(302, "/login.html") ELSE Pass

requireAdmin(c) ==
  IF ~HasUser(c) THEN Stop(302, "/login.html")
  ELSE IF SessionUser(c).role # tAdmin THEN Stop(403, "no permission")
  ELSE Pass

(***************************************************************************)
(* POST /api/login                                                         *)
(***************************************************************************)
\* Variant: the password is verified before the active flag is looked at.
LoginAnswerPasswordFirst(table, req) ==
  LET rows == SelectUserByName(table, req.username.s)
      u == rows[1]
  IN IF ~Truthy(req.username) \/ ~Truthy(req.password)
       THEN [status |-> 400, msg |-> "missing username or password", user |-> <<>>]
     ELSE IF Len(rows) = 0
       THEN [status |-> 401, msg |-> "wrong username or password", user |-> <<>>]
     ELSE IF ~BcryptAccepts(req.password)
       THEN [status |-> 500, msg |-> "login failed (server error)", user |-> <<>>]
     ELSE IF ~BcryptCompare(req.password.s, u.password_hash)
       THEN [status |-> 401, msg |-> "wrong username or password", user |-> <<>>]
     ELSE IF u.is_active # 1
       THEN [status |-> 403, msg |-> "account disabled", user |-> <<>>]
     ELSE [status |-> 200, msg |-> "", user |-> <<Snapshot(u)>>]

\* The answer of login: [status, msg, user], user being the session record
\* to establish (<<>> when none is).
LoginAnswer(table, req) ==
  LET rows == SelectUserByName(table, req.username.s)
      u == rows[1]
  IN IF ~Truthy(req.username) \/ ~Truthy(req.password)
       THEN [status |-> 400, msg |-> "missing username or password", user |-> <<>>]
     ELSE IF Len(rows) = 0
       THEN [status |-> 401, msg |-> "wrong username or password", user |-> <<>>]
     ELSE IF u.is_active # 1
       THEN [status |-> 403, msg |-> "account disabled", user |-> <<>>]
     ELSE IF ~BcryptAccepts(req.password)
       THEN [status |-> 500, msg |-> "login failed (server error)", user |-> <<>>]
     ELSE IF ~BcryptCompare(req.password.s, u.password_hash)
       THEN [status |-> 401, msg |-> "wrong username or password", user |-> <<>>]
     ELSE [status |-> 200, msg |-> "", user |-> <<Snapshot(u)>>]

Login(c, req) ==
  LET a == LoginAnswer(users, req)
  IN /\ sessions' = IF a.status = 200 THEN [sessions EXCEPT ![c] = a.user] ELSE sessions
     /\ last' = Response("login", c, req, a.status, a.msg, <<>>)
     /\ UNCHANGED <<users, reports, today, pending, writes>>

(***************************************************************************)
(* POST /api/logout                                                        *)
(***************************************************************************)
\* Variant: a logout ends the sessions of all clients.
LogoutEverySession(c) ==
  /\ sessions' = [d \in DOMAIN sessions |-> NoUser]
  /\ last' = Response("logout", c, Undef, 200, "", <<>>)
  /\ UNCHANGED <<users, reports, today, pending, writes>>

Logout(c) ==
  /\ sessions' = [sessions EXCEPT ![c] = NoUser]
  /\ last' = Response("logout", c, Undef, 200, "", <<>>)
  /\ UNCHANGED <<users, reports, today, pending, writes>>

(***************************************************************************)
(* GET /api/me                                                             *)
(***************************************************************************)
Me(c) ==
  LET g == requireLogin(c)
  IN /\ last' = IF ~g.pass THEN Response("me", c, Undef, g.status, g.msg, <<>>)
                ELSE Response("me", c, Undef, 200, "", <<SessionUser(c)>>)
     /\ UNCHANGED <<users, sessions, reports, today, pending, writes>>

(***************************************************************************)
(* GET /api/order/:orderNo.  The orders table is only read.                *)
(***************************************************************************)
Orders == << [order_no |-> tO1, item_name |-> tX, item_no |-> tN1, order_qty |-> 5] >>

GetOrder(c, orderNo) ==
  LET g == requireLogin(c)
      Match(o) == o.order_no = orderNo
      rows == Limit1(SelectSeq(Orders, Match))
  IN /\ last' = IF ~g.pass THEN Response("getOrder", c, Str(orderNo), g.status, g.msg, <<>>)
                ELSE IF Len(rows) = 0
                  THEN Response("getOrder", c, Str(orderNo), 404, "no such order", <<>>)
                ELSE Response("getOrder", c, Str(orderNo), 200, "", rows)
     /\ UNCHANGED <<users, sessions, reports, today, pending, writes>>

(***************************************************************************)
(* POST /api/report                                                        *)
(***************************************************************************)
ReportRow(id, station, orderNo, itemName, itemNo, operator, good, bad, time) ==
  [id |-> id, station |-> station, order_no |-> orderNo, item_name |-> itemName,
   item_no |-> itemNo, operator |-> operator, good_qty |-> good, bad_qty |-> bad,
   report_time |-> time]

\* Variant: the column keeps the number as it is given.
NumericColumn(x) == x.v

\* What an integer column keeps of a finite number: the nearest integer.
\* Stored quantities are in tenths, as numbers are, so 20 is the integer 2.
IntColumn(x) ==
  IF x.v >= 0 THEN 10 * ((x.v + 5) \div 10) ELSE 0 - 10 * ((5 - x.v) \div 10)

\* The day part of the timestamp the store gives a new row.
CurrentTimestamp == today

\* The fields read from the body, before .trim() and Number().
BodyOrderNo(body) == Or(Or(body.orderNo, body.order_no), Str(<<>>))
BodyItemName(body) == Or(Or(body.itemName, body.item_name), Str(<<>>))
BodyItemNo(body) == Or(Or(body.itemNo, body.item_no), Str(<<>>))
BodyGoodQty(body) == ToNumber(Coalesce(Coalesce(body.goodNumber, body.good_qty), Whole(0)))
BodyBadQty(body) == ToNumber(Coalesce(Coalesce(body.badNumber, body.bad_qty), Whole(0)))

\* The answer of the handler once the guard has passed: [status, msg, row],
\* row being the row to insert (<<>> when none is).
\* The attribution of the row: line 162 passes user.station and user.operator.
ReportStation(user, body) == user.station

\* Variant: the operator named in the body wins.
ReportOperatorFromBody(user, body) ==
  IF Truthy(body.operator) THEN ToText(body.operator) ELSE user.operator

ReportOperator(user, body) == user.operator

SubmitAnswer(user, body, nextId, time) ==
  LET o == BodyOrderNo(body)
      n == BodyItemName(body)
      i == BodyItemNo(body)
      good == BodyGoodQty(body)
      bad == BodyBadQty(body)
  IN IF ~CanTrim(o) \/ ~CanTrim(n) \/ ~CanTrim(i)
       THEN [status |-> 500, msg |-> "writing the report failed", row |-> <<>>]
     ELSE IF Trim(o.s) = <<>> \/ Trim(n.s) = <<>> \/ Trim(i.s) = <<>>
       THEN [status |-> 400, msg |-> "missing order data", row |-> <<>>]
     ELSE IF ~IsFinite(good) \/ ~IsFinite(bad) \/ Negative(good) \/ Negative(bad)
       THEN [status |-> 400, msg |-> "bad quantity", row |-> <<>>]
     ELSE [status |-> 200, msg |-> "",
           row |-> <<ReportRow(nextId, ReportStation(user, body), Trim(o.s), Trim(n.s),
                               Trim(i.s), ReportOperator(user, body), IntColumn(good),
                               IntColumn(bad), time)>>]

SubmitReport(c, body) ==
  LET g == requireLogin(c)
      a == SubmitAnswer(SessionUser(c), body, Len(reports) + 1, CurrentTimestamp)
  IN IF ~g.pass
       THEN /\ last' = Response("submitReport", c, body, g.status, g.msg, <<>>)
            /\ UNCHANGED <<users, sessions, reports, today, pending, writes>>
       ELSE /\ a.row # <<>> => Len(reports) < MaxReports
            /\ reports' = reports \o a.row
            /\ last' = Response("submitReport", c, body, a.status, a.msg, <<>>)
            /\ UNCHANGED <<users, sessions, today, pending, writes>>

(***************************************************************************)
(* GET /api/reports                                                        *)
(***************************************************************************)
UpperCase == <<"A", "B", "E", "M", "O", "S", "X", "Y">>
LowerCase == <<"a", "b", "e", "m", "o", "s", "x", "y">>

\* The column collation compares text without regard to case.
Fold(ch) ==
  IF \E k \in 1..Len(UpperCase) : UpperCase[k] = ch
    THEN LowerCase[CHOOSE k \in 1..Len(UpperCase) : UpperCase[k] = ch]
    ELSE ch

\* text LIKE pattern: % is any run of characters, _ any one character.
RECURSIVE LikeMatch(_, _)
LikeMatch(text, pattern) ==
  IF pattern = <<>> THEN text = <<>>
  ELSE IF Head(pattern) = "%"
    THEN LikeMatch(text, Tail(pattern)) \/ (text # <<>> /\ LikeMatch(Tail(text), pattern))
  ELSE /\ text # <<>>
       /\ Head(pattern) = "_" \/ Fold(Head(pattern)) = Fold(Head(text))
       /\ LikeMatch(Tail(text), Tail(pattern))

\* column LIKE `%${value}%`
LikeContains(column, value) == LikeMatch(column, <<"%">> \o value \o <<"%">>)

LimitAdmin == 5000
LimitOwn == 2000

\* The admin branch: every filter that is present (truthy) is ANDed.
AdminRows(table, q) ==
  LET Match(r) ==
        /\ q.from # 0 => r.report_time >= q.from
        /\ q.to # 0 => r.report_time <= q.to
        /\ Truthy(q.station) => LikeContains(r.station, ToText(q.station))
        /\ Truthy(q.operator) => LikeContains(r.operator, ToText(q.operator))
        /\ Truthy(q.order_no) => LikeContains(r.order_no, ToText(q.order_no))
        /\ Truthy(q.item_name) => LikeContains(r.item_name, ToText(q.item_name))
  IN OrderByIdDescLimit(SelectSeq(table, Match), LimitAdmin)

\* Variant: the operator filter of the query is honoured in the other branch.
OwnRowsTodayFiltered(table, user, q, curdate) ==
  LET who == IF Truthy(q.operator) THEN ToText(q.operator) ELSE user.operator
      Match(r) == r.operator = who /\ r.report_time = curdate
  IN OrderByIdDescLimit(SelectSeq(table, Match), LimitOwn)

\* The other branch: WHERE operator = ? AND DATE(report_time) = CURDATE()
OwnRowsToday(table, user, q, curdate) ==
  LET Match(r) == r.operator = user.operator /\ r.report_time = curdate
  IN OrderByIdDescLimit(SelectSeq(table, Match), LimitOwn)

ListReports(c, q) ==
  LET g == requireLogin(c)
      user == SessionUser(c)
  IN /\ last' = IF ~g.pass THEN Response("listReports", c, q, g.status, g.msg, <<>>)
                ELSE IF user.role = tAdmin
                  THEN Response("listReports", c, q, 200, "", AdminRows(reports, q))
                ELSE Response("listReports", c, q, 200, "", OwnRowsToday(reports, user, q, today))
     /\ UNCHANGED <<users, sessions, reports, today, pending, writes>>

(***************************************************************************)
(* POST /api/reports/clear                                                 *)
(***************************************************************************)
\* Variant: an admin's request empties the table.
ClearReportsByAdmin(c, body) ==
  LET g == requireLogin(c)
  IN /\ last' = IF ~g.pass THEN Response("clearReports", c, body, g.status, g.msg, <<>>)
                ELSE IF SessionUser(c).role = tAdmin
                  THEN Response("clearReports", c, body, 200, "", <<>>)
                ELSE Response("clearReports", c, body, 403, "feature disabled", <<>>)
     /\ reports' = IF g.pass /\ SessionUser(c).role = tAdmin THEN <<>> ELSE reports
     /\ UNCHANGED <<users, sessions, today, pending, writes>>

ClearReports(c, body) ==
  LET g == requireLogin(c)
  IN /\ last' = IF ~g.pass THEN Response("clearReports", c, body, g.status, g.msg, <<>>)
                ELSE Response("clearReports", c, body, 403, "feature disabled", <<>>)
     /\ reports' = reports
     /\ UNCHANGED <<users, sessions, today, pending, writes>>

(***************************************************************************)
(* The store's clock passes midnight.                                      *)
(***************************************************************************)
Tick ==
  /\ today < MaxDay
  /\ today' = today + 1
  /\ last' = NoResponse
  /\ UNCHANGED <<users, sessions, reports, pending, writes>>

(***************************************************************************)
(* Admin user management.                                                  *)
(***************************************************************************)
Roles == {tAdmin, tEditor, tViewer}

\* GET /api/admin/users
PublicUser(u) ==
  [id |-> u.id, username |-> u.username, station |-> u.station,
   operator |-> u.operator, role |-> u.role, is_active |-> u.is_active]

ListUsers(c) ==
  LET g == requireAdmin(c)
      all == OrderByIdDescLimit(users, LimitAdmin)
  IN /\ last' = IF ~g.pass THEN Response("listUsers", c, Undef, g.status, g.msg, <<>>)
                ELSE Response("listUsers", c, Undef, 200, "",
                              [k \in DOMAIN all |-> PublicUser(all[k])])
     /\ UNCHANGED <<users, sessions, reports, today, pending, writes>>

\* Variant: no existence query before the insert.
CreateCheckAnswerNoLookup(table, body) ==
  LET r0 == Or(body.role, Str(tViewer))
      r == Trim(r0.s)
  IN IF ~Truthy(body.username) \/ ~Truthy(body.password)
       THEN [status |-> 400, msg |-> "missing username or password", role |-> <<>>]
     ELSE IF ~CanTrim(r0)
       THEN [status |-> 500, msg |-> "creating the user failed", role |-> <<>>]
     ELSE IF r \notin Roles
       THEN [status |-> 400, msg |-> "role must be admin/editor/viewer", role |-> <<>>]
     ELSE IF ~CanTrim(body.username)
       THEN [status |-> 500, msg |-> "creating the user failed", role |-> <<>>]
     ELSE [status |-> 0, msg |-> "", role |-> r]

\* POST /api/admin/users, up to the existence query.  The answer is
\* [status, msg, role]; status 0 lets the request go on to the insert.
CreateCheckAnswer(table, body) ==
  LET r0 == Or(body.role, Str(tViewer))
      r == Trim(r0.s)
  IN IF ~Truthy(body.username) \/ ~Truthy(body.password)
       THEN [status |-> 400, msg |-> "missing username or password", role |-> <<>>]
     ELSE IF ~CanTrim(r0)
       THEN [status |-> 500, msg |-> "creating the user failed", role |-> <<>>]
     ELSE IF r \notin Roles
       THEN [status |-> 400, msg |-> "role must be admin/editor/viewer", role |-> <<>>]
     ELSE IF ~CanTrim(body.username)
       THEN [status |-> 500, msg |-> "creating the user failed", role |-> <<>>]
     ELSE IF Len(SelectUserByName(table, Trim(body.username.s))) # 0
       THEN [status |-> 409, msg |-> "username exists", role |-> <<>>]
     ELSE [status |-> 0, msg |-> "", role |-> r]

CreateUserCheck(c, body) ==
  LET g == requireAdmin(c)
      a == CreateCheckAnswer(users, body)
  IN /\ pending[c] = <<>>
     /\ IF ~g.pass
          THEN /\ last' = Response("createUser", c, body, g.status, g.msg, <<>>)
               /\ pending' = pending
          ELSE /\ last' = Response("createUser", c, body, a.status, a.msg, <<>>)
               /\ pending' = IF a.status = 0
                               THEN [pending EXCEPT ![c] =
                                       <<[body |-> body, role |-> a.role, user |-> SessionUser(c)]>>]
                               ELSE pending
     /\ UNCHANGED <<users, sessions, reports, today, writes>>

\* The users table has a unique key on username: the insert of a second row
\* with a username fails.
UniqueKeyAllows(table, username) == \A k \in DOMAIN table : table[k].username # username

NextUserId(table) == Len(table) + 1

\* The rest of POST /api/admin/users: hash, then INSERT.  [status, msg, row].
CreateInsertAnswer(table, p) ==
  LET body == p.body
      st == Or(body.station, Str(<<>>))
      op == Or(body.operator, Str(<<>>))
      name == Trim(body.username.s)
  IN IF ~BcryptAccepts(body.password) \/ ~CanTrim(st) \/ ~CanTrim(op)
          \/ ~UniqueKeyAllows(table, name)
       THEN [status |-> 500, msg |-> "creating the user failed", row |-> <<>>]
     ELSE [status |-> 200, msg |-> "",
           row |-> <<UserRow(NextUserId(table), name, BcryptHash(body.password.s),
                             Trim(st.s), Trim(op.s), p.role, 1)>>]

CreateUserInsert(c) ==
  /\ pending[c] # <<>>
  /\ LET p == pending[c][1]
         a == CreateInsertAnswer(users, p)
     IN /\ users' = users \o a.row
        /\ last' = Response("createUser", c, p.body, a.status, a.msg, <<>>)
  /\ pending' = [pending EXCEPT ![c] = <<>>]
  /\ UNCHANGED <<sessions, reports, today, writes>>

\* PUT /api/admin/users/:id
IdOf(n) == Fin(10 * n)
Supplied(x) == x.t # "undefined"
ActiveFlag(x) == IF Truthy(Num(ToNumber(x))) THEN 1 ELSE 0

\* Variant: the self-protection looks for the number 0 only.
UpdateAnswerZeroOnly(user, idParam, body) ==
  LET id == ToNumber(idParam)
  IN IF ~IsFinite(id)
       THEN [status |-> 400, msg |-> "bad id"]
     ELSE IF Truthy(body.role) /\ ToText(body.role) \notin Roles
       THEN [status |-> 400, msg |-> "role must be admin/editor/viewer"]
     ELSE IF IdOf(user.id) = id /\ Supplied(body.is_active) /\ ToNumber(body.is_active) = Fin(0)
       THEN [status |-> 400, msg |-> "cannot disable yourself"]
     ELSE IF ~(Supplied(body.station) \/ Supplied(body.operator) \/ Supplied(body.role)
               \/ Supplied(body.is_active))
       THEN [status |-> 400, msg |-> "nothing to update"]
     ELSE [status |-> 200, msg |-> ""]

\* [status, msg] of the handler once the guard has passed.
UpdateAnswer(user, idParam, body) ==
  LET id == ToNumber(idParam)
  IN IF ~IsFinite(id)
       THEN [status |-> 400, msg |-> "bad id"]
     ELSE IF Truthy(body.role) /\ ToText(body.role) \notin Roles
       THEN [status |-> 400, msg |-> "role must be admin/editor/viewer"]
     ELSE IF IdOf(user.id) = id /\ Supplied(body.is_active) /\ ToNumber(body.is_active) # Fin(10)
       THEN [status |-> 400, msg |-> "cannot disable yourself"]
     ELSE IF ~(Supplied(body.station) \/ Supplied(body.operator) \/ Supplied(body.role)
               \/ Supplied(body.is_active))
       THEN [status |-> 400, msg |-> "nothing to update"]
     ELSE [status |-> 200, msg |-> ""]

\* Variant: the UPDATE sets all four columns; a field left out is emptied.
UpdateRowAllFields(u, body) ==
  [u EXCEPT
     !.station = IF Supplied(body.station) THEN Trim(ToText(body.station)) ELSE <<>>,
     !.operator = IF Supplied(body.operator) THEN Trim(ToText(body.operator)) ELSE <<>>,
     !.role = IF Supplied(body.role) THEN Trim(ToText(body.role)) ELSE tViewer,
     !.is_active = IF Supplied(body.is_active) THEN ActiveFlag(body.is_active) ELSE 1]

\* UPDATE users SET <supplied fields> WHERE id=?
UpdateRow(u, body) ==
  [u EXCEPT
     !.station = IF Supplied(body.station) THEN Trim(ToText(body.station)) ELSE @,
     !.operator = IF Supplied(body.operator) THEN Trim(ToText(body.operator)) ELSE @,
     !.role = IF Supplied(body.role) THEN Trim(ToText(body.role)) ELSE @,
     !.is_active = IF Supplied(body.is_active) THEN ActiveFlag(body.is_active) ELSE @]

UpdateUsersSet(table, id, body) ==
  [k \in DOMAIN table |-> IF IdOf(table[k].id) = id THEN UpdateRow(table[k], body) ELSE table[k]]

\* Variant: the session follows station and operator, not the role.
PatchSessionWithoutRole(user, body) ==
  [user EXCEPT
     !.station = IF Supplied(body.station) THEN Trim(ToText(body.station)) ELSE @,
     !.operator = IF Supplied(body.operator) THEN Trim(ToText(body.operator)) ELSE @]

\* The caller's own session follows station, operator and role.
PatchSession(user, body) ==
  [user EXCEPT
     !.station = IF Supplied(body.station) THEN Trim(ToText(body.station)) ELSE @,
     !.operator = IF Supplied(body.operator) THEN Trim(ToText(body.operator)) ELSE @,
     !.role = IF Supplied(body.role) THEN Trim(ToText(body.role)) ELSE @]

\* Variant: every session of the user that was updated follows the update.
SessionsAfterUpdateOfAll(ss, c, id, body) ==
  [d \in DOMAIN ss |->
     IF ss[d] # <<>> /\ IdOf(ss[d][1].id) = id
       THEN << [ss[d][1] EXCEPT
                  !.station = IF Supplied(body.station) THEN Trim(ToText(body.station)) ELSE @,
                  !.operator = IF Supplied(body.operator) THEN Trim(ToText(body.operator)) ELSE @,
                  !.role = IF Supplied(body.role) THEN Trim(ToText(body.role)) ELSE @] >>
       ELSE ss[d]]

\* The sessions after the UPDATE: req.session.user, the caller's own record,
\* is patched when its id is the id that was updated; no other is touched.
SessionsAfterUpdate(ss, c, id, body) ==
  IF IdOf(ss[c][1].id) = id
    THEN [ss EXCEPT ![c] = <<PatchSession(ss[c][1], body)>>]
    ELSE ss

UpdateUser(c, idParam, body) ==
  LET g == requireAdmin(c)
      req == [id |-> idParam, body |-> body]
      user == SessionUser(c)
      a == UpdateAnswer(user, idParam, body)
      id == ToNumber(idParam)
  IN IF ~g.pass
       THEN /\ last' = Response("updateUser", c, req, g.status, g.msg, <<>>)
            /\ UNCHANGED <<users, sessions, reports, today, pending, writes>>
     ELSE IF a.status # 200
       THEN /\ last' = Response("updateUser", c, req, a.status, a.msg, <<>>)
            /\ UNCHANGED <<users, sessions, reports, today, pending, writes>>
     ELSE /\ writes < MaxWrites
          /\ writes' = writes + 1
          /\ users' = UpdateUsersSet(users, id, body)
          /\ sessions' = SessionsAfterUpdate(sessions, c, id, body)
          /\ last' = Response("updateUser", c, req, 200, "", <<>>)
          /\ UNCHANGED <<reports, today, pending>>

\* POST /api/admin/users/:id/reset_password
ResetAnswer(idParam, password) ==
  IF ~IsFinite(ToNumber(idParam)) THEN [status |-> 400, msg |-> "bad id"]
  ELSE IF ~Truthy(password) THEN [status |-> 400, msg |-> "missing new password"]
  ELSE [status |-> 200, msg |-> ""]

ResetUsersSet(table, id, password) ==
  [k \in DOMAIN table |->
     IF IdOf(table[k].id) = id
       THEN [table[k] EXCEPT !.password_hash = BcryptHash(ToText(password))]
       ELSE table[k]]

ResetPassword(c, idParam, password) ==
  LET g == requireAdmin(c)
      req == [id |-> idParam, password |-> password]
      a == ResetAnswer(idParam, password)
  IN IF ~g.pass
       THEN /\ last' = Response("resetPassword", c, req, g.status, g.msg, <<>>)
            /\ UNCHANGED <<users, sessions, reports, today, pending, writes>>
     ELSE IF a.status # 200
       THEN /\ last' = Response("resetPassword", c, req, a.status, a.msg, <<>>)
            /\ UNCHANGED <<users, sessions, reports, today, pending, writes>>
     ELSE /\ writes < MaxWrites
          /\ writes' = writes + 1
          /\ users' = ResetUsersSet(users, ToNumber(idParam), password)
          /\ last' = Response("resetPassword", c, req, 200, "", <<>>)
          /\ UNCHANGED <<sessions, reports, today, pending>>

(***************************************************************************)
(* The requests the clients send.                                          *)
(***************************************************************************)
LoginReq(u, p) == [username |-> u, password |-> p]

LoginRequests ==
  {LoginReq(Str(u), p) : u \in {tRoot, tBob, tEve}, p \in {Str(tP), Str(tQ), Whole(7)}}
    \cup {LoginReq(Undef, Str(tP)), LoginReq(Str(tRoot), Str(<<>>))}

\* The logins that the ledger and the admin API are exercised with.
FewLogins == {LoginReq(Str(tRoot), Str(tP)), LoginReq(Str(tBob), Str(tQ))}

EmptyBody ==
  [orderNo |-> Undef, order_no |-> Undef, itemName |-> Undef, item_name |-> Undef,
   itemNo |-> Undef, item_no |-> Undef, goodNumber |-> Undef, good_qty |-> Undef,
   badNumber |-> Undef, bad_qty |-> Undef, station |-> Undef, operator |-> Undef]

GoodBody ==
  [EmptyBody EXCEPT !.orderNo = Str(tO1), !.itemName = Str(tX), !.itemNo = Str(tN1),
                    !.goodNumber = Whole(1), !.badNumber = Whole(0)]

SubmitBodies ==
  { GoodBody,
    \* another operator and station named in the body
    [GoodBody EXCEPT !.station = Str(tS3), !.operator = Str(tAmy)],
    [GoodBody EXCEPT !.operator = Str(tBob)],
    \* the snake_case names, untrimmed text, a quantity as text, one left out
    [EmptyBody EXCEPT !.order_no = Str(<<" ", "o", "1", " ">>), !.item_name = Str(tX),
                      !.item_no = Str(tN1), !.good_qty = Str(<<"2">>)],
    [GoodBody EXCEPT !.goodNumber = Whole(-1)],
    [GoodBody EXCEPT !.badNumber = Str(<<"-", "1">>)],
    [GoodBody EXCEPT !.goodNumber = Str(<<"a">>)],
    [GoodBody EXCEPT !.badNumber = Str(InfinityText)],
    [GoodBody EXCEPT !.goodNumber = Num(Fin(15))],
    [GoodBody EXCEPT !.goodNumber = Null, !.good_qty = Whole(-1)],
    [GoodBody EXCEPT !.orderNo = Undef],
    [GoodBody EXCEPT !.itemName = Str(<<" ">>)],
    [GoodBody EXCEPT !.itemNo = Str(<<>>)],
    \* an order number sent as a JSON number
    [GoodBody EXCEPT !.orderNo = Whole(7)],
    [GoodBody EXCEPT !.orderNo = Whole(7), !.goodNumber = Whole(-1)],
    [GoodBody EXCEPT !.orderNo = Whole(7), !.itemName = Str(<<>>)] }

Query(from, to, station, operator, orderNo, itemName) ==
  [from |-> from, to |-> to, station |-> station, operator |-> operator,
   order_no |-> orderNo, item_name |-> itemName]

Queries ==
  { Query(0, 0, Undef, Undef, Undef, Undef),
    Query(0, 0, Undef, Str(tAmy), Undef, Undef),
    Query(0, 0, Undef, Str(tBob), Undef, Undef),
    Query(1, 1, Undef, Undef, Undef, Undef),
    Query(2, 0, Str(<<"s">>), Undef, Undef, Undef),
    Query(0, 0, Undef, Undef, Str(<<"_", "1">>), Str(<<"X">>)) }

ClearBodies == {Undef, Str(<<"a", "l", "l">>)}

OrderNumbers == {tO1, tX}

(***************************************************************************)
(* The ledger: authentication, order lookup, the report ledger, the clock. *)
(***************************************************************************)
LedgerClients == {"c1"}

NextLedger ==
  \/ \E c \in LedgerClients, req \in FewLogins : Login(c, req)
  \/ \E c \in LedgerClients : Logout(c)
  \/ \E c \in LedgerClients, body \in SubmitBodies : SubmitReport(c, body)
  \/ \E c \in LedgerClients, q \in Queries : ListReports(c, q)
  \/ \E c \in LedgerClients, body \in ClearBodies : ClearReports(c, body)
  \/ Tick

SpecLedger == Init /\ [][NextLedger]_vars


(***************************************************************************)
(* Authentication: every login request, with an admin who changes and      *)
(* disables accounts in between.                                           *)
(***************************************************************************)
UpdateBody(station, operator, role, active) ==
  [station |-> station, operator |-> operator, role |-> role, is_active |-> active]

\* The new passwords resetPassword is sent: none, text, a JSON number.
NewPasswords == {Undef, Str(tP), Whole(7)}

AuthUpdates ==
  { UpdateBody(Undef, Undef, Undef, Whole(0)),
    UpdateBody(Undef, Undef, Undef, Whole(1)),
    UpdateBody(Str(tS3), Undef, Str(tEditor), Undef) }

NextAuth ==
  \/ \E c \in Clients, req \in LoginRequests : Login(c, req)
  \/ \E c \in Clients : Logout(c)
  \/ \E c \in Clients, id \in {Str(<<"1">>), Str(<<"2">>)}, body \in AuthUpdates :
       UpdateUser(c, id, body)
  \/ \E c \in Clients, id \in {Str(<<"2">>)}, pw \in NewPasswords :
       ResetPassword(c, id, pw)

SpecAuth == Init /\ [][NextAuth]_vars


(***************************************************************************)
(* The admin API: authentication and the four user-management operations.  *)
(***************************************************************************)
CreateBody(username, password, station, operator, role) ==
  [username |-> username, password |-> password, station |-> station,
   operator |-> operator, role |-> role]

CreateBodies ==
  { CreateBody(Str(tEve), Str(tP), Undef, Undef, Undef),
    CreateBody(Str(<<" ", "e", "v", "e">>), Str(tQ), Str(tS3), Str(tAmy), Str(tAdmin)),
    CreateBody(Str(tBob), Str(tP), Undef, Undef, Undef),
    CreateBody(Undef, Str(tP), Undef, Undef, Undef),
    CreateBody(Str(tEve), Undef, Undef, Undef, Undef),
    CreateBody(Str(tEve), Str(tP), Undef, Undef, Str(tSuper)),
    CreateBody(Str(tEve), Str(tP), Undef, Undef, Whole(7)),
    CreateBody(Str(tEve), Str(tP), Undef, Undef, Str(<<>>)),
    CreateBody(Str(tEve), Whole(7), Undef, Undef, Undef) }

UserIds == {Str(<<"1">>), Str(<<"2">>), Str(<<"1", ".", "0">>), Str(<<"x">>)}

UpdateBodies ==
  { UpdateBody(Undef, Undef, Undef, Undef),
    UpdateBody(Undef, Undef, Str(tViewer), Undef),
    UpdateBody(Undef, Undef, Str(tAdmin), Undef),
    UpdateBody(Undef, Undef, Str(tSuper), Undef),
    UpdateBody(Undef, Undef, Str(<<>>), Undef),
    UpdateBody(Undef, Undef, Null, Undef),
    UpdateBody(Str(<<" ", "S", "3">>), Str(tAmy), Undef, Undef),
    UpdateBody(Undef, Undef, Undef, Whole(1)),
    UpdateBody(Undef, Undef, Undef, Whole(0)),
    UpdateBody(Undef, Undef, Undef, Str(<<"0">>)),
    UpdateBody(Undef, Undef, Undef, Bool(FALSE)),
    UpdateBody(Undef, Undef, Undef, Null),
    UpdateBody(Str(tS3), Undef, Undef, Str(<<"a">>)) }

\* The requests the guard of the admin API is exercised with.
GuardCreates == {CreateBody(Str(tEve), Str(tP), Undef, Undef, Undef)}
GuardUpdates == {UpdateBody(Undef, Undef, Str(tViewer), Undef),
                 UpdateBody(Undef, Undef, Str(tAdmin), Undef)}

NextAdmin ==
  \/ \E c \in Clients, req \in FewLogins : Login(c, req)
  \/ \E c \in Clients : Logout(c)
  \/ \E c \in Clients : ListUsers(c)
  \/ \E c \in Clients, body \in GuardCreates : CreateUserCheck(c, body)
  \/ \E c \in Clients : CreateUserInsert(c)
  \/ \E c \in Clients, id \in {Str(<<"1">>), Str(<<"2">>)}, body \in GuardUpdates :
       UpdateUser(c, id, body)
  \/ \E c \in Clients, pw \in {Str(tP)} : ResetPassword(c, Str(<<"2">>), pw)

SpecAdmin == Init /\ [][NextAdmin]_vars

(***************************************************************************)
(* updateUser with every body, by users who log in and out.                *)
(***************************************************************************)
UpdateClients == {"c1"}

NextUpdate ==
  \/ \E c \in UpdateClients, req \in FewLogins : Login(c, req)
  \/ \E c \in UpdateClients : Logout(c)
  \/ \E c \in UpdateClients, id \in UserIds, body \in UpdateBodies : UpdateUser(c, id, body)

SpecUpdate == Init /\ [][NextUpdate]_vars

(***************************************************************************)
(* createUser, its existence query and its insert as separate steps, so    *)
(* that the requests of two clients interleave.                            *)
(***************************************************************************)
NextCreate ==
  \/ \E c \in Clients, req \in FewLogins : Login(c, req)
  \/ \E c \in Clients : Logout(c)
  \/ \E c \in Clients, body \in CreateBodies : CreateUserCheck(c, body)
  \/ \E c \in Clients : CreateUserInsert(c)

SpecCreate == Init /\ [][NextCreate]_vars

(***************************************************************************)
(* Sessions: two clients log in and out and call the guarded routes.       *)
(***************************************************************************)
FewSubmits == {GoodBody, [GoodBody EXCEPT !.goodNumber = Whole(-1)]}
FewQueries == {Query(0, 0, Undef, Undef, Undef, Undef)}

SessionLogins == FewLogins \cup {LoginReq(Str(tRoot), Str(tQ))}

NextSession ==
  \/ \E c \in Clients, req \in SessionLogins : Login(c, req)
  \/ \E c \in Clients : Logout(c)
  \/ \E c \in Clients : Me(c)
  \/ \E c \in Clients : GetOrder(c, tO1)
  \/ \E c \in Clients : SubmitReport(c, GoodBody)
  \/ \E c \in Clients, q \in FewQueries : ListReports(c, q)
  \/ \E c \in Clients : ClearReports(c, Undef)
  \/ \E c \in Clients : ListUsers(c)
  \/ \E c \in Clients : ResetPassword(c, Str(<<"2">>), Str(tP))

SpecSession == Init /\ [][NextSession]_vars

(***************************************************************************)
(* Every operation of the API, one client, a few requests of each.         *)
(***************************************************************************)

Next ==
  \/ \E c \in LedgerClients, req \in FewLogins : Login(c, req)
  \/ \E c \in LedgerClients : Logout(c)
  \/ \E c \in LedgerClients : Me(c)
  \/ \E c \in LedgerClients, o \in OrderNumbers : GetOrder(c, o)
  \/ \E c \in LedgerClients, body \in FewSubmits : SubmitReport(c, body)
  \/ \E c \in LedgerClients, q \in FewQueries : ListReports(c, q)
  \/ \E c \in LedgerClients, body \in ClearBodies : ClearReports(c, body)
  \/ \E c \in LedgerClients : ListUsers(c)
  \/ \E c \in LedgerClients, body \in GuardCreates : CreateUserCheck(c, body)
  \/ \E c \in LedgerClients : CreateUserInsert(c)
  \/ \E c \in LedgerClients, id \in {Str(<<"1">>), Str(<<"2">>)}, body \in GuardUpdates :
       UpdateUser(c, id, body)
  \/ \E c \in LedgerClients, pw \in {Str(tP)} : ResetPassword(c, Str(<<"2">>), pw)

Spec == Init /\ [][Next]_vars

(***************************************************************************)
(* Properties of the report ledger.                                        *)
(***************************************************************************)
Answered(op) == last.op = op /\ last.status # 0
Caller == SessionUser(last.client)
RowSet(rows) == {rows[k] : k \in DOMAIN rows}

\* C1 (SpecLedger): a listReports answered to a session whose role is not admin returns
\* only rows of the session's operator dated today, and returns all of them
\* whatever the query parameters were.
C1_OwnRowsTodayOnly ==
  (Answered("listReports") /\ last.status = 200 /\ Caller.role # tAdmin) =>
     /\ \A k \in DOMAIN last.rows :
          last.rows[k].operator = Caller.operator /\ last.rows[k].report_time = today
     /\ RowSet(last.rows) =
          {r \in RowSet(reports) : r.operator = Caller.operator /\ r.report_time = today}
     /\ \A j, k \in DOMAIN last.rows : j < k => last.rows[j].id > last.rows[k].id

\* A non-admin asks for another operator's rows, which exist, and gets its own.
C1_Witness ==
  /\ Answered("listReports") /\ last.status = 200 /\ Caller.role # tAdmin
  /\ Truthy(last.req.operator) /\ last.req.operator.s # Caller.operator
  /\ \E r \in RowSet(reports) : r.operator = last.req.operator.s
  /\ last.rows # <<>>

\* What C3 calls an invalid submission.
EmptyAfterTrim(x) == ~Truthy(x) \/ (x.t = "string" /\ Trim(x.s) = <<>>)
InvalidSubmission(body) ==
  \/ ~IsFinite(BodyGoodQty(body)) \/ Negative(BodyGoodQty(body))
  \/ ~IsFinite(BodyBadQty(body)) \/ Negative(BodyBadQty(body))
  \/ EmptyAfterTrim(BodyOrderNo(body))
  \/ EmptyAfterTrim(BodyItemName(body))
  \/ EmptyAfterTrim(BodyItemNo(body))

\* C3 as claimed (SpecLedger): a logged-in caller's invalid submission is
\* answered 400 and writes nothing, so that no row of the table has a
\* negative quantity.
C3_InvalidAnswered400 ==
  /\ (Answered("submitReport") /\ last.status # 302 /\ InvalidSubmission(last.req)) =>
        last.status = 400
  /\ \A r \in RowSet(reports) : r.good_qty >= 0 /\ r.bad_qty >= 0

\* C4 (SpecLedger): the row a successful submitReport inserts carries the station and the
\* operator of the submitting session, whatever the body names.
C4_RowAttributedToSession ==
  (Answered("submitReport") /\ last.status = 200) =>
     /\ reports # <<>>
     /\ reports[Len(reports)].station = Caller.station
     /\ reports[Len(reports)].operator = Caller.operator

\* A body naming another operator and station was accepted.
C4_Witness ==
  /\ Answered("submitReport") /\ last.status = 200
  /\ Truthy(last.req.operator) /\ last.req.operator.s # Caller.operator
  /\ Truthy(last.req.station) /\ last.req.station.s # Caller.station

\* C5 (Spec): clearReports is answered 403 to every logged-in caller and never
\* changes the table; the table changes only by a successful submitReport,
\* which appends one row and leaves the rows before it as they were.
C5_AppendOnly ==
  [][ /\ (last'.op = "clearReports" /\ sessions[last'.client] # NoUser) => last'.status = 403
      /\ last'.op = "clearReports" => reports' = reports
      /\ reports' # reports =>
           /\ last'.op = "submitReport" /\ last'.status = 200
           /\ Len(reports') = Len(reports) + 1
           /\ SubSeq(reports', 1, Len(reports)) = reports ]_vars

\* An admin asked to clear a table that holds rows.
C5_Witness ==
  /\ Answered("clearReports") /\ last.status = 403
  /\ Caller.role = tAdmin /\ Truthy(last.req)
  /\ reports # <<>>

(***************************************************************************)
(* Properties of login.                                                    *)
(***************************************************************************)
\* The rows a login request names, and whether its password verifies.
NamedRows(table, req) == {u \in RowSet(table) : req.username.t = "string" /\ u.username = req.username.s}
Verifies(req, u) == req.password.t = "string" /\ u.password_hash = BcryptHash(req.password.s)
Credentials(req) == Truthy(req.username) /\ Truthy(req.password)

\* C8 as claimed (SpecAuth; for accounts that are active, C10 being about the others):
\* a login naming no row and a login naming a row whose hash the supplied
\* password does not verify against get the same answer, 401 with the one
\* generic message.
C8_SameAnswer ==
  (Answered("login") /\ Credentials(last.req)
     /\ \A u \in NamedRows(users, last.req) : u.is_active = 1 /\ ~Verifies(last.req, u)) =>
       last.status = 401 /\ last.msg = "wrong username or password"

\* C9 (SpecAuth): login establishes a session record only for a row that exists, is
\* active and whose hash verifies the password; the record is exactly the
\* row's id, username, station, operator and role as stored at that moment;
\* a login that fails leaves every session as it was.
C9_SessionOnlyBySuccessfulLogin ==
  [][ last'.op = "login" =>
        IF last'.status = 200
          THEN \E u \in NamedRows(users, last'.req) :
                 /\ u.is_active = 1
                 /\ Verifies(last'.req, u)
                 /\ sessions'[last'.client] =
                      << [id |-> u.id, username |-> u.username, station |-> u.station,
                          operator |-> u.operator, role |-> u.role] >>
                 /\ \A c \in Clients \ {last'.client} : sessions'[c] = sessions[c]
          ELSE sessions' = sessions ]_vars

\* A login succeeded on a row that an update had changed since Init.
C9_Witness ==
  /\ Answered("login") /\ last.status = 200
  /\ Caller.station = tS3 /\ Caller.role = tEditor
  /\ \E u \in RowSet(users) : u.id = Caller.id /\ u.station = tS3

\* C10 (SpecAuth): a login with credentials that names a row whose is_active is not 1
\* is answered 403 "account disabled", the password right or wrong, and
\* leaves every session as it was.
C10_DisabledBeforePassword ==
  [][ (last'.op = "login" /\ Credentials(last'.req)
         /\ \E u \in NamedRows(users, last'.req) : u.is_active # 1) =>
        /\ last'.status = 403 /\ last'.msg = "account disabled"
        /\ sessions' = sessions ]_vars

\* A disabled account was refused although the password was wrong.
C10_Witness ==
  /\ Answered("login") /\ last.status = 403
  /\ \E u \in NamedRows(users, last.req) : u.is_active = 0 /\ ~Verifies(last.req, u)

(***************************************************************************)
(* Properties of the admin API.                                            *)
(***************************************************************************)
AdminOps == {"listUsers", "createUser", "updateUser", "resetPassword"}

\* The step answers the insert half of a createUser accepted earlier.
Completes == last'.op = "createUser" /\ pending[last'.client] # <<>>

\* The session the request of the step was made with.
SessionOfRequest == IF Completes THEN <<pending[last'.client][1].user>> ELSE sessions[last'.client]

\* C2 (SpecAdmin): a user-management request made without a session is
\* redirected to login, one made with a session whose role is not admin is
\* answered 403, and neither changes the users table, a session or what is
\* pending; the table is changed, and its rows are returned, only to a
\* request whose session has role admin.
C2_AdminOnly ==
  [][ /\ (last'.op \in AdminOps /\ SessionOfRequest = NoUser) =>
           /\ last'.status = 302 /\ last'.msg = "/login.html" /\ last'.rows = <<>>
           /\ users' = users /\ sessions' = sessions /\ pending' = pending
      /\ (last'.op \in AdminOps /\ SessionOfRequest # NoUser
            /\ SessionOfRequest[1].role # tAdmin) =>
           /\ last'.status = 403 /\ last'.rows = <<>>
           /\ users' = users /\ sessions' = sessions /\ pending' = pending
      /\ users' # users =>
           /\ last'.op \in AdminOps
           /\ SessionOfRequest # NoUser /\ SessionOfRequest[1].role = tAdmin ]_vars

\* A session that still says viewer is refused although the stored role of
\* its user has become admin.
C2_Witness ==
  /\ Answered("updateUser") /\ last.status = 403
  /\ \E u \in RowSet(users) : u.id = Caller.id /\ u.role = tAdmin

\* C6 (SpecUpdate): an admin's updateUser on its own id that supplies an
\* is_active resolving to false is answered 400 and changes neither the
\* users table nor a session; no updateUser turns off the account of the
\* session that issued it.
ResolvesFalse(x) == ToNumber(x).k = "nan" \/ ToNumber(x) = Fin(0)

C6_NoSelfDeactivation ==
  [][ (last'.op = "updateUser" /\ sessions[last'.client] # NoUser) =>
        LET me == sessions[last'.client][1]
            req == last'.req
        IN /\ (me.role = tAdmin /\ ToNumber(req.id) = IdOf(me.id)
                 /\ Supplied(req.body.is_active) /\ ResolvesFalse(req.body.is_active)) =>
                /\ last'.status = 400
                /\ users' = users /\ sessions' = sessions
           /\ \A k \in DOMAIN users :
                (users[k].id = me.id /\ users[k].is_active = 1) => users'[k].is_active = 1 ]_vars

\* An admin named itself with an is_active that is text, not a number.
C6_Witness ==
  /\ Answered("updateUser") /\ last.status = 400 /\ last.msg = "cannot disable yourself"
  /\ last.req.body.is_active.t = "string" /\ ToNumber(last.req.body.is_active).k = "nan"
  /\ ToNumber(last.req.id) = IdOf(Caller.id)

\* A createUser request that passes validation.
WellFormedCreate(body) ==
  /\ body.username.t = "string" /\ Trim(body.username.s) # <<>>
  /\ body.password.t = "string" /\ body.password.s # <<>>
  /\ body.role.t = "undefined" \/ (body.role.t = "string" /\ Trim(body.role.s) \in Roles)
  /\ body.station.t \in {"undefined", "string"}
  /\ body.operator.t \in {"undefined", "string"}

RowsNamed(table, name) == {k \in DOMAIN table : table[k].username = name}

\* C7 as claimed: of the createUser requests carrying a username, one
\* creates the row and every other is answered 409, however their steps
\* interleave, and one row with the username exists afterwards.
C7_LoserAnswered409 ==
  (Answered("createUser") /\ last.status \notin {302, 403} /\ WellFormedCreate(last.req)) =>
     /\ Cardinality(RowsNamed(users, Trim(last.req.username.s))) = 1
     /\ last.status \in {200, 409}

\* C7 amended (SpecCreate): a request whose existence query runs when a row
\* with the username exists is answered 409 and inserts nothing; a request
\* whose query ran before the row existed goes on to its insert, which is
\* answered 200 and adds the one row if the username is still free, and is
\* refused by the table's unique key and answered 500, not 409, if another
\* request inserted the username in between; at most one row ever carries
\* the username.
C7_ConflictOnlyAtQuery ==
  [][ (last'.op = "createUser" /\ WellFormedCreate(last'.req)
         /\ SessionOfRequest # NoUser /\ SessionOfRequest[1].role = tAdmin) =>
        LET name == Trim(last'.req.username.s)
            had == RowsNamed(users, name) # {}
        IN /\ IF ~Completes
                THEN /\ users' = users
                     /\ had => last'.status = 409 /\ pending' = pending
                     /\ ~had => last'.status = 0 /\ pending'[last'.client] # <<>>
                ELSE /\ had => last'.status = 500 /\ users' = users
                     /\ ~had => /\ last'.status = 200
                                /\ Len(users') = Len(users) + 1
                                /\ SubSeq(users', 1, Len(users)) = users
           /\ Cardinality(RowsNamed(users', name)) <= 1
           /\ last'.status # 0 => Cardinality(RowsNamed(users', name)) = 1 ]_vars

\* Two requests for one username both passed the query; the second insert
\* was refused.
C7_Witness ==
  /\ Answered("createUser") /\ last.status = 500 /\ WellFormedCreate(last.req)
  /\ Cardinality(RowsNamed(users, Trim(last.req.username.s))) = 1

(***************************************************************************)
(* Properties of updateUser and createUser: what they validate.            *)
(***************************************************************************)
\* A role value that is one of the three roles.
ValidRole(x) == x.t = "string" /\ x.s \in Roles

\* The request of the step is an updateUser that passed the admin guard.
AdminUpdates ==
  /\ last'.op = "updateUser"
  /\ sessions[last'.client] # NoUser /\ sessions[last'.client][1].role = tAdmin

\* C11 as claimed (SpecUpdate): an admin's updateUser that supplies a role
\* which is not one of admin, editor, viewer is answered 400 and leaves the
\* users table as it was.
C11_InvalidRoleRejected ==
  [][ (AdminUpdates /\ Supplied(last'.req.body.role) /\ ~ValidRole(last'.req.body.role)) =>
        last'.status = 400 /\ users' = users ]_vars

\* C12 as claimed (SpecCreate): a createUser that passed the admin guard and
\* lacks the username or the password, or supplies a role which is not one
\* of admin, editor, viewer, is answered 400 and inserts nothing; a request
\* created without a role gives a viewer; every created row is active.
C12_InvalidCreateRejected ==
  /\ (Answered("createUser") /\ last.status \notin {302, 403}
        /\ (\/ ~Truthy(last.req.username) \/ ~Truthy(last.req.password)
            \/ (Supplied(last.req.role) /\ ~ValidRole(last.req.role)))) =>
       /\ last.status = 400
       /\ RowsNamed(users, ToText(last.req.username)) = {}
  /\ (Answered("createUser") /\ last.status = 200 /\ ~Supplied(last.req.role)) =>
       users[Len(users)].role = tViewer
  /\ \A k \in DOMAIN users : k > Len(InitUsers) => users[k].is_active = 1

(***************************************************************************)
(* Properties of the session snapshot.                                     *)
(***************************************************************************)
\* C13 (SpecUpdate): after an updateUser answered 200 whose id is the id of
\* the caller's session, the session's station, operator and role are the
\* values now stored in the caller's row, for each of them that the request
\* supplied, and a session whose role is no longer admin is refused by the
\* admin guard from then on; an updateUser that is not answered 200 changes
\* neither the users table nor a session.
C13_SessionFollowsStore ==
  [][ \A c \in Clients : (last'.op = "updateUser" /\ last'.client = c) =>
        LET me == sessions[c][1]
            body == last'.req.body
        IN IF last'.status = 200
             THEN ToNumber(last'.req.id) = IdOf(me.id) =>
                    /\ sessions'[c] # NoUser
                    /\ \E k \in DOMAIN users' : users'[k].id = me.id
                    /\ \A k \in DOMAIN users' : users'[k].id = me.id =>
                         /\ Supplied(body.station) => sessions'[c][1].station = users'[k].station
                         /\ Supplied(body.operator) => sessions'[c][1].operator = users'[k].operator
                         /\ Supplied(body.role) => sessions'[c][1].role = users'[k].role
                         /\ users'[k].role # tAdmin => sessions'[c][1].role # tAdmin
                    /\ sessions'[c][1].role # tAdmin =>
                         requireAdmin(c)' = Stop(403, "no permission")
             ELSE users' = users /\ sessions' = sessions ]_vars

\* An admin made itself a viewer and is refused by the admin guard.
C13_Witness ==
  /\ Answered("updateUser") /\ last.status = 200
  /\ ToNumber(last.req.id) = IdOf(Caller.id)
  /\ last.req.body.role = Str(tViewer)
  /\ Caller.role = tViewer
  /\ \E k \in DOMAIN users : users[k].id = Caller.id /\ users[k].role = tViewer
  /\ ~requireAdmin(last.client).pass

\* C14 (SpecAuth): a session record changes only in a step of its own
\* client that is a successful login, a logout, or a successful updateUser
\* whose id is the id of that session; an updateUser aimed at another user
\* and every resetPassword leave all sessions as they were.
C14_SnapshotChangesOnlyByOwner ==
  [][ /\ \A c \in Clients : sessions'[c] # sessions[c] =>
           /\ last'.client = c
           /\ \/ last'.op = "login" /\ last'.status = 200
              \/ last'.op = "logout"
              \/ /\ last'.op = "updateUser" /\ last'.status = 200
                 /\ sessions[c] # NoUser
                 /\ ToNumber(last'.req.id) = IdOf(sessions[c][1].id)
      /\ (last'.op = "updateUser" /\ sessions[last'.client] # NoUser
            /\ ToNumber(last'.req.id) # IdOf(sessions[last'.client][1].id)) =>
           sessions' = sessions
      /\ last'.op = "resetPassword" => sessions' = sessions ]_vars

\* An admin gave another user, who is logged in on another client, a new
\* role and station; that user's session still holds what it held at login.
C14_Witness ==
  /\ Answered("updateUser") /\ last.status = 200
  /\ \E c \in Clients \ {last.client} :
       /\ HasUser(c)
       /\ IdOf(SessionUser(c).id) = ToNumber(last.req.id)
       /\ SessionUser(c).role = tViewer /\ SessionUser(c).station = tS2
       /\ \E k \in DOMAIN users :
            users[k].id = SessionUser(c).id /\ users[k].role = tEditor /\ users[k].station = tS3

(***************************************************************************)
(* Properties of resetPassword.                                            *)
(***************************************************************************)
\* C15 as claimed (SpecAuth): after an admin's resetPassword answered 200
\* for an active user, a login of that user with the new password is
\* answered 200 and one with the password that verified before, when it is
\* another, 401; the stored hash changes by no other step; a resetPassword
\* without a new password is answered 400 and leaves the table as it was.
C15_NewPasswordLogsIn ==
  [][ /\ (last'.op = "resetPassword" /\ last'.status \notin {302, 403}) =>
           LET pw == last'.req.password
               id == ToNumber(last'.req.id)
           IN IF ~Truthy(pw)
                THEN last'.status = 400 /\ users' = users
                ELSE /\ last'.status = 200
                     /\ \A k \in DOMAIN users' :
                          (IdOf(users'[k].id) = id /\ users'[k].is_active = 1) =>
                            /\ LoginAnswer(users', LoginReq(Str(users'[k].username), pw)).status = 200
                            /\ \A old \in {Str(tP), Str(tQ)} :
                                 (BcryptCompare(old.s, users[k].password_hash) /\ old # pw) =>
                                   LoginAnswer(users', LoginReq(Str(users'[k].username), old)).status = 401
      /\ \A k \in DOMAIN users :
           users'[k].password_hash # users[k].password_hash =>
             last'.op = "resetPassword" /\ last'.status = 200 ]_vars

(***************************************************************************)
(* Properties of logout.                                                   *)
(***************************************************************************)
GuardedOps ==
  {"me", "getOrder", "submitReport", "listReports", "clearReports"} \cup AdminOps

\* C16 (SpecSession): logout is answered 200 with or without a session and
\* leaves its client without one, the sessions of the other clients and
\* everything stored as they were, so that a logout of a client without a
\* session changes nothing; from then on the guards answer the client as
\* they answer one that never logged in, every guarded request is answered
\* 302 and changes nothing, and only a successful login of that client
\* gives it a session again.
C16_LogoutDestroysSession ==
  [][ \A c \in Clients :
        /\ (last'.op = "logout" /\ last'.client = c) =>
             /\ last'.status = 200
             /\ sessions'[c] = NoUser
             /\ \A d \in Clients \ {c} : sessions'[d] = sessions[d]
             /\ UNCHANGED <<users, reports, today, pending, writes>>
             /\ sessions[c] = NoUser => sessions' = sessions
             /\ requireLogin(c)' = Stop(302, "/login.html")
             /\ requireAdmin(c)' = Stop(302, "/login.html")
        /\ (sessions[c] = NoUser /\ last'.client = c /\ last'.op \in GuardedOps) =>
             /\ last'.status = 302 /\ last'.rows = <<>>
             /\ UNCHANGED <<users, sessions, reports, today, pending, writes>>
        /\ (sessions[c] = NoUser /\ sessions'[c] # NoUser) =>
             last'.op = "login" /\ last'.status = 200 /\ last'.client = c ]_vars

\* A client logged out while the other client is logged in and rows and a
\* changed password are stored.
C16_Witness ==
  /\ Answered("logout") /\ ~HasUser(last.client)
  /\ \E d \in Clients \ {last.client} : HasUser(d)
  /\ reports # <<>> /\ users # InitUsers

(***************************************************************************)
(* Properties of the admin's listReports.                                  *)
(***************************************************************************)
\* sub occurs in text, letters compared without regard to case.
Contains(text, sub) ==
  \E i \in 0..(Len(text) - Len(sub)) :
    \A j \in 1..Len(sub) : Fold(text[i + j]) = Fold(sub[j])

\* C17 as claimed (SpecLedger): a listReports answered to an admin session
\* returns exactly the rows whose date is within from and to, where given,
\* and whose station, operator, order_no and item_name contain the supplied
\* text, where given, newest first and at most 5000 of them.
C17_ExactlyMatchingRows ==
  (Answered("listReports") /\ last.status = 200 /\ Caller.role = tAdmin) =>
     LET q == last.req
         Satisfies(r) ==
           /\ q.from # 0 => r.report_time >= q.from
           /\ q.to # 0 => r.report_time <= q.to
           /\ Truthy(q.station) => Contains(r.station, ToText(q.station))
           /\ Truthy(q.operator) => Contains(r.operator, ToText(q.operator))
           /\ Truthy(q.order_no) => Contains(r.order_no, ToText(q.order_no))
           /\ Truthy(q.item_name) => Contains(r.item_name, ToText(q.item_name))
     IN /\ RowSet(last.rows) = {r \in RowSet(reports) : Satisfies(r)}
        /\ \A j, k \in DOMAIN last.rows : j < k => last.rows[j].id > last.rows[k].id
        /\ Len(last.rows) <= LimitAdmin

(***************************************************************************)
(* Properties of what updateUser writes.                                   *)
(***************************************************************************)
\* C18 (SpecUpdate): an admin's updateUser answered 200 gives the row with
\* the id of the request the supplied station, operator and role, as text
\* without surrounding blanks, and the supplied is_active as 1 or 0, and
\* leaves that row's other columns, its username and password hash among
\* them, and every other row as they were; an updateUser that supplies none
\* of the four is answered 400 and changes neither the table nor a session.
C18_SparseUpdate ==
  [][ AdminUpdates =>
        LET body == last'.req.body
            id == ToNumber(last'.req.id)
        IN /\ (~Supplied(body.station) /\ ~Supplied(body.operator)
                 /\ ~Supplied(body.role) /\ ~Supplied(body.is_active)) =>
                /\ last'.status = 400
                /\ users' = users /\ sessions' = sessions
           /\ last'.status = 200 =>
                /\ DOMAIN users' = DOMAIN users
                /\ \A k \in DOMAIN users :
                     IF IdOf(users[k].id) = id
                       THEN /\ users'[k].id = users[k].id
                            /\ users'[k].username = users[k].username
                            /\ users'[k].password_hash = users[k].password_hash
                            /\ users'[k].station =
                                 IF Supplied(body.station) THEN Trim(ToText(body.station))
                                 ELSE users[k].station
                            /\ users'[k].operator =
                                 IF Supplied(body.operator) THEN Trim(ToText(body.operator))
                                 ELSE users[k].operator
                            /\ users'[k].role =
                                 IF Supplied(body.role) THEN Trim(ToText(body.role))
                                 ELSE users[k].role
                            /\ users'[k].is_active =
                                 IF ~Supplied(body.is_active) THEN users[k].is_active
                                 ELSE IF ResolvesFalse(body.is_active) THEN 0 ELSE 1
                       ELSE users'[k] = users[k] ]_vars

\* A request that supplied station and operator only was answered 200: the
\* row has the new station and operator and the role it had.
C18_Witness ==
  /\ Answered("updateUser") /\ last.status = 200
  /\ Supplied(last.req.body.station) /\ Supplied(last.req.body.operator)
  /\ ~Supplied(last.req.body.role) /\ ~Supplied(last.req.body.is_active)
  /\ \E k \in DOMAIN users :
       /\ IdOf(users[k].id) = ToNumber(last.req.id)
       /\ users[k].station = tS3 /\ users[k].station # InitUsers[k].station
       /\ users[k].operator = tAmy /\ users[k].operator # InitUsers[k].operator
       /\ users[k].role = InitUsers[k].role /\ users[k].is_active = 1

\* C19 as claimed (SpecUpdate): every row of the users table has a role that
\* is one of admin, editor, viewer.
C19_RolesValid == \A k \in DOMAIN users : users[k].role \in Roles

====
